---- MODULE Spec2Model ----
(***************************************************************************)
(* A model of helm_llama.py: the batch-inference harness that loads a      *)
(* sharded checkpoint, prepares batched prompts, runs the generation loop, *)
(* truncates every continuation at its first newline and dumps the         *)
(* instance-id -> output mapping as one JSON object.                       *)
(*                                                                         *)
(* A run launches a set of processes on the same arguments.  Every process *)
(* executes main; its position is pc[p] and fault[p] names the unhandled   *)
(* exception that ended it ("none" while it is alive or has finished).     *)
(* Text is a sequence of characters; the newline is the character NL.      *)
(***************************************************************************)
EXTENDS Integers, Sequences, FiniteSets, TLC

\* ---------------------------------------------------------------- bounds
MaxLen == 2          \* longest continuation the generator returns
MaxInstances == 2    \* most instances in the dataset of the loop runs
MaxBatchSize == 2    \* largest max_batch_size of the loop runs
MaxProcs == 2        \* processes of a model-parallel run
NumIds == 2          \* distinct instance ids

\* ------------------------------------------------------ program constants
temperature == 0
top_p == 1
max_new_tokens == 100
default_max_batch_size == 1
progress_every == 4

\* ------------------------------------------------------------ value sets
NL == "\n"
Chars == {"a", NL}
InstanceIds == 1..NumIds

SeqsUpTo(S, n) == UNION {[1..k -> S] : k \in 0..n}
Texts == SeqsUpTo(Chars, MaxLen)

NoFile == {<<"no file">>}

Min(a, b) == IF a < b THEN a ELSE b

\* ------------------------------------------------------------- variables
VARIABLES
    procs,               \* the processes launched
    env_local_rank,      \* LOCAL_RANK of each process: <<>> unset, <<r>> set
    env_world_size,      \* WORLD_SIZE: <<>> unset, <<n>> set
    env_model_size,      \* whether MODEL_SIZE is set
    n_ckpt,              \* number of *.pth files in ckpt_dir
    p_id, prepend_arg, max_batch_size, data_name, dataset,   \* arguments, dataset file
    model_outputs,       \* the continuations the loaded model can generate
    pc, fault,
    local_rank, world_size, stdout, console, devnull,
    ckpt_loaded,         \* indexes (in the sorted list) of the shards torch.load read
    prepend_text, input_list_batched, i, bidx,
    results, results_log, output_dict, gen_calls,
    file, file_opens     \* content of the output path, and who opened it for writing

envVars == <<procs, env_local_rank, env_world_size, env_model_size, n_ckpt,
             p_id, prepend_arg, max_batch_size, data_name, dataset, model_outputs>>
bootVars == <<local_rank, world_size, stdout>>
loopVars == <<i, bidx, results, results_log, output_dict, gen_calls>>
fileVars == <<file, file_opens>>
vars == <<envVars, pc, fault, bootVars, console, devnull, ckpt_loaded,
          prepend_text, input_list_batched, loopVars, fileVars>>

\* ------------------------------------------------- Python helpers used
\* int(os.environ.get(name, default))
environ_get(v, default) == IF v = <<>> THEN default ELSE v[1]

\* seq[k] for a Python list of length n: the 0-based position read, or {} for IndexError
py_index(n, k) ==
    IF 0 <= k /\ k < n THEN {k}
    ELSE IF k < 0 /\ -n <= k THEN {n + k}
    ELSE {}

\* str.find(ch): 0-based position of the first occurrence, -1 when absent
find(s, ch) ==
    IF \E k \in 1..Len(s) : s[k] = ch
    THEN (CHOOSE k \in 1..Len(s) : s[k] = ch /\ \A j \in 1..(k - 1) : s[j] # ch) - 1
    ELSE -1

\* s[a:b] for 0 <= a <= b
slice(s, a, b) == SubSeq(s, a + 1, Min(b, Len(s)))

\* d[k] = v
\* (variant: an existing key keeps its first value)
dict_set_keep(d, k, v) == d @@ (k :> v)
dict_set(d, k, v) == (k :> v) @@ d

\* print(...): to the console, or to the null device once sys.stdout was replaced
py_print(p, msgs) ==
    /\ console' = [console EXCEPT ![p] = IF stdout'[p] = "console" THEN @ \o msgs ELSE @]
    /\ devnull' = [devnull EXCEPT ![p] = IF stdout'[p] = "devnull" THEN @ \o msgs ELSE @]

\* json.dump of a dict: one member per key, the key written as a string
json_dump(d) == {<<ToString(k), d[k]>> : k \in DOMAIN d}

\* ------------------------------------------------------------ main, load
\* if local_rank > 0: sys.stdout = open(os.devnull, "w")
\* (variant: rank 0 is silenced too)
SilencedAlso0(r) == r >= 0
Silenced(r) == r > 0

\* assert world_size == len(checkpoints)
\* (variant: fewer processes than shards are accepted)
ShardCountLax(ws, n) == ws <= n
ShardCountOk(ws, n) == ws = n

\* prepend_text = get_prompt_map()[p_id]
get_prompt_map == (0 :> <<"a", NL>>) @@ (1 :> <<"a">>)
\* (variant: the prepend_text argument is kept)
PromptPrefixArg(arg, pid) == arg
PromptPrefix(arg, pid) == get_prompt_map[pid]

\* the text of a dataset instance
InstanceInput(id) == [k \in 1..id |-> "a"]

\* get_helm_data_list / get_msmacro_data_list: fixed-size batches of records,
\* each a prompt (the prefix followed by the instance text) and an instance id
RECURSIVE Chunk(_, _)
Chunk(s, n) ==
    IF s = <<>> THEN <<>>
    ELSE <<SubSeq(s, 1, Min(n, Len(s)))>> \o Chunk(SubSeq(s, Min(n, Len(s)) + 1, Len(s)), n)

Records(ds, prefix) ==
    [k \in 1..Len(ds) |-> [input |-> prefix \o InstanceInput(ds[k]), instance_id |-> ds[k]]]

get_helm_data_list(ds, prefix, batch_size) == Chunk(Records(ds, prefix), batch_size)
get_msmacro_data_list(ds, prefix, batch_size) == Chunk(Records(ds, prefix), batch_size)

\* the for loop over input_list_batched: the batch of iteration n (0-based),
\* and where control goes once n batches are done
\* (variants: the first batch every time; the loop left after one batch)
CurrentBatchFirst(batches, n) == batches[1]
CurrentBatch(batches, n) == batches[n + 1]

LoopPcEarly(batches, n) == IF n = 0 /\ Len(batches) > 0 THEN "gen" ELSE "write"
LoopPc(batches, n) == IF n < Len(batches) THEN "gen" ELSE "write"

Prompts(dict_list) == [k \in 1..Len(dict_list) |-> dict_list[k].input]
Ids(dict_list) == [k \in 1..Len(dict_list) |-> dict_list[k].instance_id]

\* isolate_output: the generated suffix of every result
isolate_output(prompts, rs) ==
    [k \in 1..Min(Len(prompts), Len(rs)) |-> SubSeq(rs[k], Len(prompts[k]) + 1, Len(rs[k]))]

\* truncate = out.find("\n"); if truncate != -1: out = out[0: truncate]
\* (variants: a leading newline is not cut; the newline is kept)
truncate_positive(out) ==
    LET truncate == find(out, NL) IN IF truncate > 0 THEN slice(out, 0, truncate) ELSE out
truncate_inclusive(out) ==
    LET truncate == find(out, NL) IN IF truncate # -1 THEN slice(out, 0, truncate + 1) ELSE out
truncate_out(out) ==
    LET truncate == find(out, NL) IN IF truncate # -1 THEN slice(out, 0, truncate) ELSE out

\* for inid, out in zip(instance_ids, outputs): ... output_dict[inid] = out
RECURSIVE store_all(_, _, _, _)
store_all(d, ids, outs, k) ==
    IF k > Min(Len(ids), Len(outs)) THEN d
    ELSE store_all(dict_set(d, ids[k], truncate_out(outs[k])), ids, outs, k + 1)

Alive(p) == p \in procs /\ fault[p] = "none"

\* ---------------------------------------------------------------- actions
\* main, lines 83-87: setup_model_parallel, the stdout switch, the banner
Setup(p) ==
    /\ Alive(p) /\ pc[p] = "start"
    /\ local_rank' = [local_rank EXCEPT ![p] = environ_get(env_local_rank[p], -1)]
    /\ world_size' = [world_size EXCEPT ![p] = environ_get(env_world_size, -1)]
    /\ stdout' = [stdout EXCEPT ![p] = IF Silenced(local_rank'[p]) THEN "devnull" ELSE @]
    /\ py_print(p, <<"local_rank is", "world_size is">>)
    /\ pc' = [pc EXCEPT ![p] = "load"]
    /\ UNCHANGED <<envVars, fault, ckpt_loaded, prepend_text, input_list_batched,
                   loopVars, fileVars>>

\* load
Load(p) ==
    /\ Alive(p) /\ pc[p] = "load"
    /\ UNCHANGED <<envVars, bootVars, prepend_text, input_list_batched, loopVars, fileVars>>
    /\ IF ~ShardCountOk(world_size[p], n_ckpt)
       THEN /\ fault' = [fault EXCEPT ![p] = "AssertionError"]
            /\ UNCHANGED <<pc, ckpt_loaded, console, devnull>>
       ELSE IF py_index(n_ckpt, local_rank[p]) = {}
       THEN /\ fault' = [fault EXCEPT ![p] = "IndexError"]
            /\ UNCHANGED <<pc, ckpt_loaded, console, devnull>>
       ELSE /\ ckpt_loaded' = [ckpt_loaded EXCEPT ![p] = py_index(n_ckpt, local_rank[p])]
            /\ py_print(p, <<"Loading", "Loaded in">>)
            /\ pc' = [pc EXCEPT ![p] = "data"]
            /\ UNCHANGED fault

\* main, lines 92-115: prompt template, dataset preparation, the three prints
Prepare(p) ==
    /\ Alive(p) /\ pc[p] = "data"
    /\ UNCHANGED <<envVars, bootVars, ckpt_loaded, loopVars, fileVars>>
    /\ IF p_id \notin DOMAIN get_prompt_map
       THEN /\ fault' = [fault EXCEPT ![p] = "KeyError"]
            /\ UNCHANGED <<pc, prepend_text, input_list_batched, console, devnull>>
       ELSE /\ prepend_text' = [prepend_text EXCEPT ![p] = PromptPrefix(prepend_arg, p_id)]
            /\ input_list_batched' = [input_list_batched EXCEPT ![p] =
                   IF data_name \in {"msmarco_regular", "msmarco_trec"}
                   THEN get_msmacro_data_list(dataset, prepend_text'[p], max_batch_size)
                   ELSE get_helm_data_list(dataset, prepend_text'[p], max_batch_size)]
            /\ IF env_model_size
               THEN /\ py_print(p, <<"data name", "len of data", "Model name">>)
                    /\ pc' = [pc EXCEPT ![p] = LoopPc(input_list_batched'[p], 0)]
                    /\ UNCHANGED fault
               ELSE /\ py_print(p, <<"data name", "len of data">>)
                    /\ fault' = [fault EXCEPT ![p] = "KeyError"]
                    /\ UNCHANGED pc

\* main, lines 117-121: the call of generator.generate for the current batch
GenerateCall(p) ==
    /\ Alive(p) /\ pc[p] = "gen"
    /\ LET dict_list == CurrentBatch(input_list_batched[p], bidx[p]) IN
       gen_calls' = [gen_calls EXCEPT ![p] = Append(@,
           [prompts |-> Prompts(dict_list), max_gen_len |-> max_new_tokens,
            temperature |-> temperature, top_p |-> top_p])]
    /\ pc' = [pc EXCEPT ![p] = "ingen"]
    /\ UNCHANGED <<envVars, fault, bootVars, console, devnull, ckpt_loaded, prepend_text,
                   input_list_batched, i, bidx, results, results_log, output_dict, fileVars>>

\* generate returns: a model-parallel forward pass is a collective of every
\* process of the run, and all of them (same seed) get the same continuations
GenerateReturn ==
    /\ procs # {}
    /\ \A p \in procs : Alive(p) /\ pc[p] = "ingen"
    /\ \E conts \in SeqsUpTo(model_outputs, MaxBatchSize) :
        /\ \A p \in procs : Len(conts) = Len(gen_calls[p][Len(gen_calls[p])].prompts)
        /\ results' = [p \in procs |->
               LET prompts == gen_calls[p][Len(gen_calls[p])].prompts
               IN [k \in 1..Len(prompts) |-> prompts[k] \o conts[k]]]
        /\ results_log' = [p \in procs |-> Append(results_log[p], results'[p])]
    /\ pc' = [p \in procs |-> "rec"]
    /\ UNCHANGED <<envVars, fault, bootVars, console, devnull, ckpt_loaded, prepend_text,
                   input_list_batched, i, bidx, output_dict, gen_calls, fileVars>>

\* main, lines 122-135: the prints, isolate_output, truncation, the dict update
Record(p) ==
    /\ Alive(p) /\ pc[p] = "rec"
    /\ UNCHANGED <<envVars, fault, bootVars, ckpt_loaded, prepend_text, input_list_batched,
                   results, results_log, gen_calls, fileVars>>
    /\ LET dict_list == CurrentBatch(input_list_batched[p], bidx[p])
           prompts == Prompts(dict_list)
           instance_ids == Ids(dict_list)
           outputs == isolate_output(prompts, results[p])
           first == IF i[p] = 0 THEN <<"instance_id", "Result">> ELSE <<>>
           progress == IF (i[p] + Len(dict_list)) % progress_every = 0 THEN <<"i">> ELSE <<>>
       IN /\ py_print(p, first \o progress)
          /\ i' = [i EXCEPT ![p] = @ + Len(dict_list)]
          /\ output_dict' = [output_dict EXCEPT ![p] = store_all(@, instance_ids, outputs, 1)]
    /\ bidx' = [bidx EXCEPT ![p] = @ + 1]
    /\ pc' = [pc EXCEPT ![p] = LoopPc(input_list_batched[p], bidx'[p])]

\* main, lines 142-145: open the output path for writing and dump the mapping
Write(p) ==
    /\ Alive(p) /\ pc[p] = "write"
    /\ file_opens' = Append(file_opens, p)
    /\ file' = json_dump(output_dict[p])
    /\ pc' = [pc EXCEPT ![p] = "done"]
    /\ UNCHANGED <<envVars, fault, bootVars, console, devnull, ckpt_loaded, prepend_text,
                   input_list_batched, loopVars>>

\* any other failure (missing file, shape mismatch, out of memory) is unhandled
Fail(p) ==
    /\ Alive(p) /\ pc[p] # "done"
    /\ fault' = [fault EXCEPT ![p] = "fault"]
    /\ UNCHANGED <<envVars, pc, bootVars, console, devnull, ckpt_loaded, prepend_text,
                   input_list_batched, loopVars, fileVars>>

Next ==
    \/ \E p \in procs : Setup(p)
    \/ \E p \in procs : Load(p)
    \/ \E p \in procs : Prepare(p)
    \/ \E p \in procs : GenerateCall(p)
    \/ GenerateReturn
    \/ \E p \in procs : Record(p)
    \/ \E p \in procs : Write(p)
    \/ \E p \in procs : Fail(p)

\* ------------------------------------------------------------------ Init
InitProc ==
    /\ pc = [p \in procs |-> "start"]
    /\ fault = [p \in procs |-> "none"]
    /\ local_rank = [p \in procs |-> 0]
    /\ world_size = [p \in procs |-> 0]
    /\ stdout = [p \in procs |-> "console"]
    /\ console = [p \in procs |-> <<>>]
    /\ devnull = [p \in procs |-> <<>>]
    /\ ckpt_loaded = [p \in procs |-> {}]
    /\ prepend_text = [p \in procs |-> prepend_arg]
    /\ input_list_batched = [p \in procs |-> <<>>]
    /\ i = [p \in procs |-> 0]
    /\ bidx = [p \in procs |-> 0]
    /\ results = [p \in procs |-> <<>>]
    /\ results_log = [p \in procs |-> <<>>]
    /\ output_dict = [p \in procs |-> <<>>]
    /\ gen_calls = [p \in procs |-> <<>>]
    /\ file = NoFile
    /\ file_opens = <<>>

\* one process, any dataset of up to MaxInstances instances (ids may repeat),
\* a model that may generate any text of up to MaxLen characters
Init ==
    /\ procs = {1}
    /\ env_local_rank = [p \in procs |-> <<0>>]
    /\ env_world_size = <<1>>
    /\ env_model_size = TRUE
    /\ n_ckpt = 1
    /\ p_id = 0
    /\ prepend_arg = <<>>
    /\ max_batch_size \in 1..MaxBatchSize
    /\ data_name = "helm"
    /\ dataset \in SeqsUpTo(InstanceIds, MaxInstances)
    /\ model_outputs = Texts
    /\ InitProc

\* MaxProcs processes, launched with LOCAL_RANK 0, 1, ... or with LOCAL_RANK unset,
\* on an empty dataset, one instance, or enough instances for a progress print
InitPar ==
    /\ procs = 1..MaxProcs
    /\ env_local_rank \in {[p \in procs |-> <<p - 1>>], [p \in procs |-> <<>>]}
    /\ env_world_size \in {<<>>, <<MaxProcs>>}
    /\ env_model_size \in BOOLEAN
    /\ n_ckpt \in 0..(MaxProcs + 1)
    /\ p_id \in (DOMAIN get_prompt_map) \cup {2}
    /\ prepend_arg \in {<<>>, <<"a">>}
    /\ max_batch_size = default_max_batch_size
    /\ data_name \in {"helm", "msmarco_regular"}
    /\ dataset \in {[k \in 1..n |-> 1] : n \in {0, 1, progress_every}}
    /\ model_outputs = {<<"a", NL, "a">>}
    /\ InitProc

Spec == Init /\ [][Next]_vars
SpecPar == InitPar /\ [][Next]_vars

\* ------------------------------------------------------ what was observed
Range(s) == {s[k] : k \in 1..Len(s)}
Writers == Range(file_opens)
Printed(p) == Range(console[p]) \cup Range(devnull[p])
Launched == {p \in procs : pc[p] # "start"}
PastLoad == {p \in procs : pc[p] \notin {"start", "load"}}
PastPrepare == {p \in procs : pc[p] \in {"gen", "ingen", "rec", "write", "done"}}

\* the records of the first b batches in processing order, each with the
\* continuation the generator returned for it
RECURSIVE ProcessedUpTo(_, _)
ProcessedUpTo(p, b) ==
    IF b = 0 THEN <<>>
    ELSE LET dict_list == input_list_batched[p][b]
             outs == isolate_output(Prompts(dict_list), results_log[p][b])
         IN ProcessedUpTo(p, b - 1) \o
            [k \in 1..Len(dict_list) |-> [id |-> dict_list[k].instance_id, out |-> outs[k]]]
Processed(p) == ProcessedUpTo(p, bidx[p])
SeenIds(s) == {s[k].id : k \in 1..Len(s)}
LastOut(s, id) ==
    s[CHOOSE k \in 1..Len(s) : s[k].id = id /\ \A j \in (k + 1)..Len(s) : s[j].id # id].out
FirstOut(s, id) ==
    s[CHOOSE k \in 1..Len(s) : s[k].id = id /\ \A j \in 1..(k - 1) : s[j].id # id].out

HasNL(out) == NL \in Range(out)
\* the part of out strictly before its first newline; out when it has none
FirstLine(out) ==
    CHOOSE t \in {SubSeq(out, 1, k) : k \in 0..Len(out)} :
        /\ ~HasNL(t)
        /\ t = out \/ out[Len(t) + 1] = NL

BatchIds(p) == UNION {Range(Ids(input_list_batched[p][b])) : b \in 1..Len(input_list_batched[p])}

\* ------------------------------------------------------------------ claims
\* C1: the mapping dumped to the JSON file has exactly one entry per distinct
\* instance id seen in any batch, none for any other id, and the value of an id
\* is the truncated output of the last record carrying that id.
C1_DumpIsLastPerId ==
    \A p \in procs :
        (file_opens # <<>> /\ file_opens[Len(file_opens)] = p) =>
            LET s == ProcessedUpTo(p, Len(input_list_batched[p])) IN
            /\ SeenIds(s) = BatchIds(p)
            /\ file = {<<ToString(id), FirstLine(LastOut(s, id))>> : id \in BatchIds(p)}
            /\ Cardinality(file) = Cardinality(BatchIds(p))

\* an id occurred twice, its two continuations truncate differently, and the file is written
C1_Witness ==
    \E p \in procs :
        /\ pc[p] = "done" /\ file # NoFile
        /\ \E id \in SeenIds(Processed(p)) :
               FirstLine(FirstOut(Processed(p), id)) # FirstLine(LastOut(Processed(p), id))

\* C2: the value recorded for a continuation out is the prefix of out strictly
\* before its first newline when out has one (empty when out starts with a
\* newline), and out unchanged when it has none.
C2_TruncateAtFirstNewline ==
    \A p \in procs : \A id \in DOMAIN output_dict[p] :
        LET out == LastOut(Processed(p), id)
            v == output_dict[p][id]
        IN /\ HasNL(out) =>
                 \E k \in 1..Len(out) :
                     /\ out[k] = NL /\ \A j \in 1..(k - 1) : out[j] # NL
                     /\ v = SubSeq(out, 1, k - 1)
           /\ (out # <<>> /\ out[1] = NL) => v = <<>>
           /\ ~HasNL(out) => v = out

\* one continuation that starts with a newline and one cut after a non-empty prefix are recorded
C2_Witness ==
    \E p \in procs : \E id1, id2 \in DOMAIN output_dict[p] :
        LET o1 == LastOut(Processed(p), id1)
            o2 == LastOut(Processed(p), id2)
        IN /\ o1 # <<>> /\ o1[1] = NL /\ Len(o1) > 1
           /\ HasNL(o2) /\ o2[1] # NL /\ output_dict[p][id2] # o2

\* C3: the shard-count assertion of load fails whenever the number of *.pth
\* files differs from world_size (also for the default -1) and passes when they
\* are equal; a process it stops has read no shard, called generate never and
\* written no file.
C3_ShardAssertion ==
    \A p \in procs :
        /\ fault[p] = "AssertionError" =>
               /\ pc[p] = "load" /\ world_size[p] # n_ckpt
               /\ ckpt_loaded[p] = {} /\ "Loading" \notin Printed(p)
               /\ gen_calls[p] = <<>> /\ p \notin Writers
        /\ p \in PastLoad => world_size[p] = n_ckpt
        /\ fault[p] = "IndexError" => world_size[p] = n_ckpt
        /\ (env_world_size = <<>> /\ p \in Launched) =>
               /\ world_size[p] = -1 /\ pc[p] = "load"
               /\ fault[p] \in {"none", "AssertionError", "fault"}

\* WORLD_SIZE is unset and the assertion has stopped a process
C3_Witness ==
    \E p \in procs :
        fault[p] = "AssertionError" /\ world_size[p] = -1 /\ env_world_size = <<>>

\* C4: only the lowest-rank process writes the output file; no process of
\* rank > 0 opens it, so no two processes write the same file.
C4_OnlyLowestRankWrites ==
    /\ \A p \in Writers : ~(local_rank[p] > 0)
    /\ Cardinality(Writers) <= 1

\* C5: every print of a process whose local rank is greater than 0 goes to the
\* null device and none to the console; the prints of the rank-0 process reach
\* the console.
PrintsDue(p) ==
    {"local_rank is", "world_size is"}
    \cup (IF p \in PastLoad THEN {"Loading", "Loaded in"} ELSE {})
    \cup (IF p \in PastPrepare THEN {"data name", "len of data", "Model name"} ELSE {})
    \cup (IF pc[p] = "data" /\ fault[p] = "KeyError" /\ p_id \in DOMAIN get_prompt_map
          THEN {"data name", "len of data"} ELSE {})
    \cup (IF bidx[p] > 0 THEN {"instance_id", "Result"} ELSE {})
    \cup (IF bidx[p] > 0 /\ i[p] >= progress_every THEN {"i"} ELSE {})

C5_ConsoleOnlyRank0 ==
    \A p \in Launched :
        /\ local_rank[p] > 0 => (console[p] = <<>> /\ Range(devnull[p]) = PrintsDue(p))
        /\ local_rank[p] = 0 => (devnull[p] = <<>> /\ Range(console[p]) = PrintsDue(p))

\* a rank-0 and a higher-rank process have both printed a progress counter
C5_Witness ==
    \E p, q \in procs :
        /\ pc[p] = "done" /\ local_rank[p] = 0 /\ "i" \in Range(console[p])
        /\ pc[q] = "done" /\ local_rank[q] > 0 /\ "i" \in Range(devnull[q])

C7_OneBatchAtATime ==
    \A p \in procs :
        LET calls == gen_calls[p]
            batches == input_list_batched[p]
        IN /\ Len(calls) = bidx[p] + (IF pc[p] \in {"ingen", "rec"} THEN 1 ELSE 0)
           /\ Len(results_log[p]) = bidx[p] + (IF pc[p] = "rec" THEN 1 ELSE 0)
           /\ Len(calls) <= Len(batches)
           /\ \A n \in 1..Len(calls) :
                  calls[n] = [prompts |-> Prompts(batches[n]), max_gen_len |-> max_new_tokens,
                              temperature |-> temperature, top_p |-> top_p]
           /\ \A n \in 1..bidx[p] : Range(Ids(batches[n])) \subseteq DOMAIN output_dict[p]
           /\ pc[p] \in {"write", "done"} => Len(calls) = Len(batches)

\* the second of two different batches is in generate, the first is recorded
C7_Witness ==
    \E p \in procs :
        /\ pc[p] = "ingen" /\ Len(gen_calls[p]) = 2 /\ bidx[p] = 1
        /\ input_list_batched[p][1] # input_list_batched[p][2]

\* C8: once the assertion has passed, the process of local rank r loads the
\* r-th file of the sorted list, for every rank the bootstrap can produce
\* (also the default -1), so every shard is loaded by exactly one process.
C8_OwnShardPerRank ==
    (procs \subseteq PastLoad) =>
        /\ \A p \in procs : ckpt_loaded[p] = {local_rank[p]}
        /\ \A k \in 0..(n_ckpt - 1) : Cardinality({p \in procs : k \in ckpt_loaded[p]}) = 1

\* C9: the prefix handed to dataset preparation is the template of p_id; the
\* prepend_text argument has no effect on it or on the batches.
C9_PrefixFromPromptMap ==
    \A p \in PastPrepare :
        /\ prepend_text[p] = get_prompt_map[p_id]
        /\ input_list_batched[p] = Chunk(Records(dataset, get_prompt_map[p_id]), max_batch_size)

\* a non-empty prepend_text argument that differs from the template, batches prepared
C9_Witness ==
    \E p \in PastPrepare :
        /\ prepend_arg # <<>> /\ prepend_arg # get_prompt_map[p_id]
        /\ input_list_batched[p] # <<>>
        /\ data_name = "msmarco_regular"

\* C10: no value of the output mapping contains a newline, entries are only
\* added or overwritten, and there are never more entries than records
\* processed so far.
C10_LoopInvariant ==
    /\ [](\A p \in procs :
            /\ \A id \in DOMAIN output_dict[p] : ~HasNL(output_dict[p][id])
            /\ Cardinality(DOMAIN output_dict[p]) <= i[p]
            /\ i[p] = Len(Processed(p)))
    /\ [][\A p \in procs : DOMAIN output_dict[p] \subseteq DOMAIN output_dict'[p]]_vars

\* an entry was overwritten by a later record whose continuation had a newline
C10_Witness ==
    \E p \in procs : \E id \in DOMAIN output_dict[p] :
        /\ i[p] > Cardinality(DOMAIN output_dict[p])
        /\ HasNL(LastOut(Processed(p), id))
        /\ output_dict[p][id] # <<>>

====
